---- MODULE Spec2Model ----
(***************************************************************************)
(* A model of profiler.py: the extraction pass of main, the author catalog *)
(* (get_unique_authors), the selection parser (parse_selection) and the    *)
(* control flow of main.  Python strings are sequences of one-character    *)
(* strings, so that strip, lower, split and int are computed, not assumed. *)
(***************************************************************************)
EXTENDS Integers, Sequences, FiniteSets

VARIABLES
    dir,                \* the *.json files of json_data_path, in glob order
    storage,            \* os.path.exists(PERSIST_DIR)
    existed,            \* the value the test of line 84 read
    pc,                 \* position in main (or in the parse_selection call)
    fileIdx,            \* position of the extraction loop of line 92
    all_documents,      \* main's all_documents
    index,              \* main's index: "none", "built" or "loaded"
    events,             \* collaborator and scan calls made so far, in order
    unique_authors,     \* main's unique_authors / parse_selection's authors
    user_input,         \* main's user_input / parse_selection's selection_str
    authors_to_analyze, \* main's authors_to_analyze / parse_selection's result
    qi,                 \* position of the query loop of line 165
    queries,            \* the author named by each query issued, in order
    streaming_response, \* the last response of query_engine.query
    raised              \* an exception escaped the function

vars == <<dir, storage, existed, pc, fileIdx, all_documents, index, events,
          unique_authors, user_input, authors_to_analyze, qi, queries,
          streaming_response, raised>>

-----------------------------------------------------------------------------
(* Bounds *)

MaxSelLen == 4
MaxAuthors == 3
MaxFiles == 2
MaxMsgs == 2
DriverFiles == 2
DriverMsgs == 2

-----------------------------------------------------------------------------
(* Python strings *)

IsSpace(c) == c = " "

IsDigit(c) == c \in {"0", "1", "2", "3", "4", "5", "6", "7", "8", "9"}

DigitVal(c) ==
    CASE c = "0" -> 0 [] c = "1" -> 1 [] c = "2" -> 2 [] c = "3" -> 3
      [] c = "4" -> 4 [] c = "5" -> 5 [] c = "6" -> 6 [] c = "7" -> 7
      [] c = "8" -> 8 [] c = "9" -> 9

\* ord(c) for the characters of the model
Ord(c) ==
    CASE c = " " -> 32 [] c = "," -> 44 [] c = "-" -> 45
      [] IsDigit(c) -> 48 + DigitVal(c)
      [] c = "A" -> 65 [] c = "L" -> 76
      [] c = "a" -> 97 [] c = "b" -> 98 [] c = "c" -> 99 [] c = "d" -> 100
      [] c = "e" -> 101 [] c = "l" -> 108 [] c = "x" -> 120
      [] OTHER -> 127

RECURSIVE LStrip(_)
LStrip(s) ==
    IF s = <<>> THEN s
    ELSE IF IsSpace(Head(s)) THEN LStrip(Tail(s)) ELSE s

RECURSIVE RStrip(_)
RStrip(s) ==
    IF s = <<>> THEN s
    ELSE IF IsSpace(s[Len(s)]) THEN RStrip(SubSeq(s, 1, Len(s) - 1)) ELSE s

\* str.strip()
Strip(s) == RStrip(LStrip(s))

LowerChar(c) == CASE c = "A" -> "a" [] c = "L" -> "l" [] OTHER -> c

\* str.lower()
Lower(s) == [i \in 1..Len(s) |-> LowerChar(s[i])]

\* str.split(sep) for a one-character separator: never empty
RECURSIVE Split(_, _)
Split(s, sep) ==
    IF \A i \in 1..Len(s) : s[i] # sep THEN <<s>>
    ELSE LET p == CHOOSE i \in 1..Len(s) :
                      s[i] = sep /\ \A j \in 1..(i - 1) : s[j] # sep
         IN  <<SubSeq(s, 1, p - 1)>> \o Split(SubSeq(s, p + 1, Len(s)), sep)

RECURSIVE DecimalValue(_)
DecimalValue(s) ==
    IF s = <<>> THEN 0
    ELSE 10 * DecimalValue(SubSeq(s, 1, Len(s) - 1)) + DigitVal(s[Len(s)])

\* int(s) for a str: surrounding whitespace is dropped, then decimal digits
\* are required; anything else is a ValueError.
PyInt(s) ==
    LET t == Strip(s)
    IN  IF t # <<>> /\ \A i \in 1..Len(t) : IsDigit(t[i])
        THEN [exc |-> "none", val |-> DecimalValue(t)]
        ELSE [exc |-> "ValueError", val |-> 0]

\* s < t for Python strings (code point order, a proper prefix first)
RECURSIVE StrLess(_, _)
StrLess(s, t) ==
    IF t = <<>> THEN FALSE
    ELSE IF s = <<>> THEN TRUE
    ELSE IF Head(s) # Head(t) THEN Ord(Head(s)) < Ord(Head(t))
    ELSE StrLess(Tail(s), Tail(t))

\* sorted(list(S)) for a set of str
RECURSIVE SortedStrs(_)
SortedStrs(S) ==
    IF S = {} THEN <<>>
    ELSE LET m == CHOOSE x \in S : \A y \in S \ {x} : StrLess(x, y)
         IN  <<m>> \o SortedStrs(S \ {m})

\* sorted(list(S)) for a set of int
RECURSIVE SortedInts(_)
SortedInts(S) ==
    IF S = {} THEN <<>>
    ELSE LET m == CHOOSE x \in S : \A y \in S : x <= y
         IN  <<m>> \o SortedInts(S \ {m})

Range(f) == {f[i] : i \in DOMAIN f}

-----------------------------------------------------------------------------
(* parse_selection *)

\* range(start, end + 1), as 0-based indices (missing the last one)
RangeIndicesExclusive(start, end) == {i - 1 : i \in start..(end - 1)}

\* lines 63-64
RangeIndices(start, end) == {i - 1 : i \in start..end}

\* The body of the try of lines 56-70 for one stripped, non-empty part.
ParsePart(part, n) ==
    IF "-" \in Range(part)
    THEN LET pieces == Split(part, "-")
             ints == [i \in 1..Len(pieces) |-> PyInt(pieces[i])]
         IN  IF Len(pieces) # 2 \/ \E i \in 1..Len(pieces) : ints[i].exc # "none"
             THEN [exc |-> "ValueError", indices |-> {}]
             ELSE LET start == ints[1].val
                      end == ints[2].val
                  IN  IF start > end \/ start < 1 \/ end > n
                      THEN [exc |-> "none", indices |-> {}]
                      ELSE [exc |-> "none", indices |-> RangeIndices(start, end)]
    ELSE LET r == PyInt(part)
         IN  IF r.exc # "none" THEN [exc |-> r.exc, indices |-> {}]
             ELSE IF r.val < 1 \/ r.val > n
             THEN [exc |-> "none", indices |-> {}]
             ELSE [exc |-> "none", indices |-> {r.val - 1}]

\* The except clause of line 71
CaughtByParse(exc) == exc = "ValueError"

\* The loop of lines 52-73 over parts[k..], from selected_indices = acc.
RECURSIVE ParseParts(_, _, _, _)
ParseParts(parts, k, n, acc) ==
    IF k > Len(parts) THEN [raised |-> FALSE, indices |-> acc]
    ELSE LET part == Strip(parts[k])
         IN  IF part = <<>> THEN ParseParts(parts, k + 1, n, acc)
             ELSE LET r == ParsePart(part, n)
                  IN  IF r.exc = "none"
                      THEN ParseParts(parts, k + 1, n, acc \cup r.indices)
                      ELSE IF CaughtByParse(r.exc)
                      THEN ParseParts(parts, k + 1, n, acc)
                      ELSE [raised |-> TRUE, indices |-> acc]

\* parse_selection(selection_str, authors)
parse_selection(selection_str, authors) ==
    LET r == ParseParts(Split(selection_str, ","), 1, Len(authors), {})
        order == SortedInts(r.indices)
    IN  IF r.raised THEN [raised |-> TRUE, names |-> <<>>]
        ELSE [raised |-> FALSE,
              names |-> [j \in 1..Len(order) |-> authors[order[j] + 1]]]

-----------------------------------------------------------------------------
(* The chat export files *)

\* A file is [name, kind, msgs].  kind says how far json.load and the shape
\* test get: "ioerror" (open raises), "badjson" (json.load raises),
\* "notdict" (the document is no mapping), "nomessages" (a mapping without
\* 'messages'), "notlist" ('messages' is no list), "ok" (msgs is the list).
\* A message is [isdict, author, name, nameval, content, contentval]:
\* author is "missing", "nondict" (null, a string, a number, a list) or
\* "dict"; name and content are "missing", "nonstr" or "str" with the value.

BadKinds == {"ioerror", "badjson", "notdict", "nomessages", "notlist"}

NoStr == <<>>

NonDictMsg ==
    [isdict |-> FALSE, author |-> "missing", name |-> "missing", nameval |-> NoStr,
     content |-> "missing", contentval |-> NoStr]

DictMsg(author, name, nameval, content, contentval) ==
    [isdict |-> TRUE, author |-> author, name |-> name, nameval |-> nameval,
     content |-> content, contentval |-> contentval]

\* open() and json.load() of lines 94-95 and 27-28
LoadFile(file) ==
    IF file.kind = "ioerror" THEN [exc |-> "OSError"]
    ELSE IF file.kind = "badjson" THEN [exc |-> "JSONDecodeError"]
    ELSE [exc |-> "none"]

\* isinstance(data, dict) and 'messages' in data and
\* isinstance(data['messages'], list), lines 98 and 30
HasMessagesList(file) ==
    /\ file.kind # "notdict"
    /\ file.kind # "nomessages"
    /\ file.kind # "notlist"

-----------------------------------------------------------------------------
(* The extraction pass of main *)

\* msg.get('author', {}).get('name'), line 105
AuthorNameOf(msg) ==
    IF ~msg.isdict THEN [exc |-> "AttributeError", isstr |-> FALSE, s |-> NoStr]
    ELSE IF msg.author = "missing" THEN [exc |-> "none", isstr |-> FALSE, s |-> NoStr]
    ELSE IF msg.author = "nondict"
    THEN [exc |-> "AttributeError", isstr |-> FALSE, s |-> NoStr]
    ELSE [exc |-> "none", isstr |-> msg.name = "str",
          s |-> IF msg.name = "str" THEN msg.nameval ELSE NoStr]

\* msg.get('content'), line 106
ContentOf(msg) ==
    [isstr |-> msg.content = "str",
     s |-> IF msg.content = "str" THEN msg.contentval ELSE NoStr]

\* The metadata author of line 112, without the strip
DocAuthorRaw(author_name) == author_name

\* The metadata author of line 112
DocAuthor(author_name) == Strip(author_name)

\* Document(...) of lines 110-113
MakeDocument(author_name, content, fname) ==
    [text |-> author_name \o <<" said: ">> \o content,
     author |-> DocAuthor(author_name),
     source_file |-> fname]

\* The loop of lines 104-115 over msgs[k..]; docs is what this file has
\* appended to all_documents so far.  An exception leaves the loop and
\* keeps what was appended.
RECURSIVE ExtractMsgs(_, _, _, _)
ExtractMsgs(msgs, k, fname, docs) ==
    IF k > Len(msgs) THEN [exc |-> "none", docs |-> docs]
    ELSE LET a == AuthorNameOf(msgs[k])
             c == ContentOf(msgs[k])
         IN  IF a.exc # "none" THEN [exc |-> a.exc, docs |-> docs]
             ELSE IF a.isstr /\ Strip(a.s) # <<>> /\ c.isstr /\ Strip(c.s) # <<>>
             THEN ExtractMsgs(msgs, k + 1, fname,
                              Append(docs, MakeDocument(a.s, c.s, fname)))
             ELSE ExtractMsgs(msgs, k + 1, fname, docs)

\* One iteration of the loop of line 92: the try of lines 93-117 and the
\* except of line 119, which catches every Exception.
ExtractFileDocs(file) ==
    LET l == LoadFile(file)
    IN  IF l.exc # "none" THEN [failed |-> TRUE, docs |-> <<>>]
        ELSE IF ~HasMessagesList(file) THEN [failed |-> FALSE, docs |-> <<>>]
        ELSE LET r == ExtractMsgs(file.msgs, 1, file.name, <<>>)
             IN  [failed |-> r.exc # "none", docs |-> r.docs]

\* Lines 91-120 for a whole enumeration
RECURSIVE ExtractAll(_)
ExtractAll(files) ==
    IF files = <<>> THEN <<>>
    ELSE ExtractFileDocs(Head(files)).docs \o ExtractAll(Tail(files))

-----------------------------------------------------------------------------
(* get_unique_authors *)

\* What line 36 adds, without the strip
CatalogEntryRaw(author_name) == author_name

\* What line 36 adds
CatalogEntry(author_name) == Strip(author_name)

\* Lines 32-36 for one item of data['messages']
CatalogNames(item) ==
    IF item.isdict /\ item.author # "missing" /\ item.author = "dict"
       /\ item.name # "missing"
    THEN IF item.name = "str" /\ Strip(item.nameval) # <<>>
         THEN {CatalogEntry(item.nameval)}
         ELSE {}
    ELSE {}

\* Lines 26-38 for one file: the names it adds to authors
CatalogFile(file) ==
    IF LoadFile(file).exc # "none" THEN {}
    ELSE IF HasMessagesList(file)
    THEN UNION {CatalogNames(file.msgs[i]) : i \in 1..Len(file.msgs)}
    ELSE {}

\* The loop of line 25 over files[k..], from authors = acc
RECURSIVE CatalogLoop(_, _, _)
CatalogLoop(files, k, acc) ==
    IF k > Len(files) THEN acc
    ELSE CatalogLoop(files, k + 1, acc \cup CatalogFile(files[k]))

\* Line 40, without the sort: some order of the set
UnsortedStrs(S) ==
    IF S = {} THEN <<>>
    ELSE CHOOSE q \in [1..Cardinality(S) -> S] :
             /\ Range(q) = S
             /\ \A i \in 1..(Len(q) - 1) : StrLess(q[i + 1], q[i])

\* Line 40
AuthorList(S) == SortedStrs(S)

get_unique_authors(files) == AuthorList(CatalogLoop(files, 1, {}))

-----------------------------------------------------------------------------
(* Inputs *)

\* The sum of counts[1..n]
RECURSIVE SumTo(_, _)
SumTo(counts, n) == IF n = 0 THEN 0 ELSE SumTo(counts, n - 1) + counts[n]

\* The enumeration whose i-th file is named i, is of kind fk[i] and holds the
\* next counts[i] messages of flat
DirOf(fk, counts, flat) ==
    [i \in DOMAIN fk |->
        [name |-> i,
         kind |-> fk[i],
         msgs |-> [k \in 1..counts[i] |-> flat[SumTo(counts, i - 1) + k]]]]

NameValues == {<<" ">>, <<" ", "a">>, <<"a">>, <<"b">>}

\* Every shape of author with a content, every shape of content with an
\* author, and a message that is no mapping.
ScanMsgKinds ==
    {NonDictMsg,
     DictMsg("missing", "missing", NoStr, "str", <<"x">>),
     DictMsg("nondict", "missing", NoStr, "str", <<"x">>),
     DictMsg("dict", "missing", NoStr, "str", <<"x">>),
     DictMsg("dict", "nonstr", NoStr, "str", <<"x">>),
     DictMsg("dict", "str", <<"b">>, "missing", NoStr),
     DictMsg("dict", "str", <<"b">>, "nonstr", NoStr),
     DictMsg("dict", "str", <<"b">>, "str", <<" ">>)}
    \cup {DictMsg("dict", "str", n, "str", <<"x">>) : n \in NameValues}

ScanFileKinds == BadKinds \cup {"ok"}

DriverMsgKinds ==
    {NonDictMsg,
     DictMsg("dict", "str", <<"a">>, "str", <<"x">>),
     DictMsg("dict", "str", <<"b">>, "str", <<"x">>),
     DictMsg("dict", "str", <<"a", "b">>, "missing", NoStr)}

DriverFileKinds == {"badjson", "ok"}

\* The lines the operator may type at the prompt of line 154
InputLines ==
    {<<>>, <<"x">>, <<"0">>, <<"1">>, <<"2">>, <<"3">>, <<"9">>,
     <<"2", ",", "1">>, <<"1", "-", "2">>, <<"2", "-", "1">>, <<"1", "-", "3">>,
     <<"x", ",", " ", "2">>,
     <<"a", "l", "l">>, <<"A", "L", "L">>, <<"A", "l", "l">>, <<" ", "a", "l", "l">>,
     <<"a", "l", "l", ",", "1">>}

Responses == {"empty", "text"}

SelAlphabet == {"0", "1", "2", "3", "-", ",", " ", "x"}

NameList == <<<<"a">>, <<"a", "b">>, <<"b">>, <<"c">>, <<"d">>, <<"e">>>>

-----------------------------------------------------------------------------
(* main *)

InitRun(d, st) ==
    /\ dir = d
    /\ storage = st
    /\ existed = "unread"
    /\ pc = "start"
    /\ fileIdx = 0
    /\ all_documents = <<>>
    /\ index = "none"
    /\ events = <<>>
    /\ unique_authors = <<>>
    /\ user_input = <<>>
    /\ authors_to_analyze = <<>>
    /\ qi = 0
    /\ queries = <<>>
    /\ streaming_response = "none"
    /\ raised = FALSE

\* A run over at most maxf files of the kinds fkinds, holding at most maxm
\* messages of the kinds mkinds in all, with PERSIST_DIR there or not
InitOver(mkinds, fkinds, maxf, maxm) ==
    \E nf \in 0..maxf :
        \E counts \in [1..nf -> 0..maxm] :
            /\ SumTo(counts, nf) <= maxm
            /\ \E fk \in [1..nf -> fkinds] :
                   /\ \A i \in 1..nf : fk[i] # "ok" => counts[i] = 0
                   /\ \E flat \in [1..SumTo(counts, nf) -> mkinds] :
                          \E st \in BOOLEAN : InitRun(DirOf(fk, counts, flat), st)

Init == InitOver(DriverMsgKinds, DriverFileKinds, DriverFiles, DriverMsgs)

\* Lines 84-89 taking the build branch whatever the test read
CheckPersistDirAlwaysBuild ==
    /\ pc = "start"
    /\ existed' = IF storage THEN "yes" ELSE "no"
    /\ pc' = IF dir = <<>> THEN "exit_no_files" ELSE "extract"
    /\ fileIdx' = 1
    /\ UNCHANGED <<dir, storage, all_documents, index, events, unique_authors,
                   user_input, authors_to_analyze, qi, queries,
                   streaming_response, raised>>

\* Lines 84-89: the branch on PERSIST_DIR and the glob of the build branch
CheckPersistDir ==
    /\ pc = "start"
    /\ existed' = IF storage THEN "yes" ELSE "no"
    /\ pc' = IF storage THEN "load"
             ELSE IF dir = <<>> THEN "exit_no_files" ELSE "extract"
    /\ fileIdx' = IF storage THEN fileIdx ELSE 1
    /\ UNCHANGED <<dir, storage, all_documents, index, events, unique_authors,
                   user_input, authors_to_analyze, qi, queries,
                   streaming_response, raised>>

\* Lines 92-120: one file of the extraction loop
ExtractFile ==
    /\ pc = "extract"
    /\ fileIdx <= Len(dir)
    /\ all_documents' = all_documents \o ExtractFileDocs(dir[fileIdx]).docs
    /\ events' = Append(events, "extract")
    /\ fileIdx' = fileIdx + 1
    /\ pc' = IF fileIdx + 1 > Len(dir) THEN "extracted" ELSE "extract"
    /\ UNCHANGED <<dir, storage, existed, index, unique_authors, user_input,
                   authors_to_analyze, qi, queries, streaming_response, raised>>

\* Lines 122-124 without the test of all_documents
BuildIndexUnguarded ==
    /\ pc = "extracted"
    /\ index' = "built"
    /\ events' = Append(events, "build")
    /\ pc' = "persist"
    /\ UNCHANGED <<dir, storage, existed, fileIdx, all_documents, unique_authors,
                   user_input, authors_to_analyze, qi, queries,
                   streaming_response, raised>>

\* Lines 122-124: VectorStoreIndex.from_documents
BuildIndex ==
    /\ pc = "extracted"
    /\ all_documents # <<>>
    /\ index' = "built"
    /\ events' = Append(events, "build")
    /\ pc' = "persist"
    /\ UNCHANGED <<dir, storage, existed, fileIdx, all_documents, unique_authors,
                   user_input, authors_to_analyze, qi, queries,
                   streaming_response, raised>>

\* Lines 128-130
NoValidMessages ==
    /\ pc = "extracted"
    /\ all_documents = <<>>
    /\ pc' = "exit_no_messages"
    /\ UNCHANGED <<dir, storage, existed, fileIdx, all_documents, index, events,
                   unique_authors, user_input, authors_to_analyze, qi, queries,
                   streaming_response, raised>>

\* Lines 125-127: index.storage_context.persist
PersistIndex ==
    /\ pc = "persist"
    /\ storage' = TRUE
    /\ events' = Append(events, "persist")
    /\ pc' = "analysis"
    /\ UNCHANGED <<dir, existed, fileIdx, all_documents, index, unique_authors,
                   user_input, authors_to_analyze, qi, queries,
                   streaming_response, raised>>

\* Lines 132-135: load_index_from_storage
LoadIndex ==
    /\ pc = "load"
    /\ index' = "loaded"
    /\ events' = Append(events, "load")
    /\ pc' = "analysis"
    /\ UNCHANGED <<dir, storage, existed, fileIdx, all_documents, unique_authors,
                   user_input, authors_to_analyze, qi, queries,
                   streaming_response, raised>>

\* Lines 138-152: the catalog scan, the menu, authors_to_analyze = []
ScanAuthors ==
    /\ pc = "analysis"
    /\ index # "none"
    /\ unique_authors' = get_unique_authors(dir)
    /\ events' = Append(events, "catalog")
    /\ authors_to_analyze' = <<>>
    /\ pc' = IF unique_authors' = <<>> THEN "exit_no_authors" ELSE "prompt"
    /\ UNCHANGED <<dir, storage, existed, fileIdx, all_documents, index,
                   user_input, qi, queries, streaming_response, raised>>

\* user_input.lower() == 'all' compared without lower()
IsAllExact(s) == s = <<"a", "l", "l">>

\* Line 155
IsAll(s) == Lower(s) = <<"a", "l", "l">>

\* Lines 155-159: the selection one input resolves to
Resolve(s, authors) ==
    IF IsAll(s) THEN authors
    ELSE parse_selection(s, authors).names

\* The loop test of line 153 leaving on any input
LoopLeavesAlways(selection) == TRUE

\* The loop of line 153 is left (by the break or by its test)
LoopLeaves(selection) == selection # <<>>

\* Lines 153-161: one pass of the selection loop, reading one line
ReadSelection ==
    /\ pc = "prompt"
    /\ \E line \in InputLines :
        /\ user_input' = Strip(line)
        /\ IF ~IsAll(user_input') /\ parse_selection(user_input', unique_authors).raised
           THEN /\ raised' = TRUE
                /\ pc' = "crashed"
                /\ UNCHANGED <<authors_to_analyze, qi>>
           ELSE /\ authors_to_analyze' =
                       Resolve(user_input', unique_authors)
                /\ pc' = IF LoopLeaves(authors_to_analyze') THEN "query" ELSE "prompt"
                /\ qi' = IF LoopLeaves(authors_to_analyze') THEN 1 ELSE qi
                /\ UNCHANGED raised
    /\ UNCHANGED <<dir, storage, existed, fileIdx, all_documents, index, events,
                   unique_authors, queries, streaming_response>>

\* The author a query names, taking the first of the selection every time
QueriedAuthorFirst(selection, i) == selection[1]

\* The author the i-th iteration of line 165 names in its prompt
QueriedAuthor(selection, i) == selection[i]

\* Lines 165-178: one query and its streamed response
QueryAuthor ==
    /\ pc = "query"
    /\ qi <= Len(authors_to_analyze)
    /\ \E resp \in Responses : streaming_response' = resp
    /\ queries' = Append(queries, QueriedAuthor(authors_to_analyze, qi))
    /\ qi' = qi + 1
    /\ UNCHANGED <<dir, storage, existed, pc, fileIdx, all_documents, index,
                   events, unique_authors, user_input, authors_to_analyze, raised>>

\* Line 179
Complete ==
    /\ pc = "query"
    /\ qi > Len(authors_to_analyze)
    /\ pc' = "complete"
    /\ UNCHANGED <<dir, storage, existed, fileIdx, all_documents, index, events,
                   unique_authors, user_input, authors_to_analyze, qi, queries,
                   streaming_response, raised>>

Next ==
    \/ CheckPersistDir
    \/ ExtractFile
    \/ BuildIndex
    \/ NoValidMessages
    \/ PersistIndex
    \/ LoadIndex
    \/ ScanAuthors
    \/ ReadSelection
    \/ QueryAuthor
    \/ Complete

Spec == Init /\ [][Next]_vars

\* Every step but the read of line 154 is the program's own: it is taken.
Program ==
    \/ CheckPersistDir
    \/ ExtractFile
    \/ BuildIndex
    \/ NoValidMessages
    \/ PersistIndex
    \/ LoadIndex
    \/ ScanAuthors
    \/ QueryAuthor
    \/ Complete

LiveSpec == Spec /\ WF_vars(Program)

-----------------------------------------------------------------------------
(* The two passes over richer directories, up to the menu *)

InitScan == InitOver(ScanMsgKinds, ScanFileKinds, MaxFiles, MaxMsgs)

NextScan ==
    \/ CheckPersistDir
    \/ ExtractFile
    \/ BuildIndex
    \/ NoValidMessages
    \/ PersistIndex
    \/ LoadIndex
    \/ ScanAuthors

SpecScan == InitScan /\ [][NextScan]_vars

-----------------------------------------------------------------------------
(* parse_selection on its own *)

InitParse ==
    /\ pc = "parse_call"
    /\ \E n \in 0..MaxSelLen : user_input \in [1..n -> SelAlphabet]
    /\ \E n \in 0..MaxAuthors : unique_authors = SubSeq(NameList, 1, n)
    /\ dir = <<>>
    /\ storage = FALSE
    /\ existed = "unread"
    /\ fileIdx = 0
    /\ all_documents = <<>>
    /\ index = "none"
    /\ events = <<>>
    /\ authors_to_analyze = <<>>
    /\ qi = 0
    /\ queries = <<>>
    /\ streaming_response = "none"
    /\ raised = FALSE

\* A call of parse_selection(user_input, unique_authors)
CallParseSelection ==
    /\ pc = "parse_call"
    /\ LET r == parse_selection(user_input, unique_authors)
       IN  /\ raised' = r.raised
           /\ authors_to_analyze' = r.names
    /\ pc' = "parse_ret"
    /\ UNCHANGED <<dir, storage, existed, fileIdx, all_documents, index, events,
                   unique_authors, user_input, qi, queries, streaming_response>>

NextParse == CallParseSelection

SpecParse == InitParse /\ [][NextParse]_vars

-----------------------------------------------------------------------------
(* What the specification says, stated without the code's operators *)

NonBlank(s) == \E i \in 1..Len(s) : s[i] # " "

\* s without its leading and trailing blanks
Trimmed(s) ==
    IF ~NonBlank(s) THEN <<>>
    ELSE LET a == CHOOSE i \in 1..Len(s) :
                      s[i] # " " /\ \A j \in 1..(i - 1) : s[j] = " "
             b == CHOOSE i \in 1..Len(s) :
                      s[i] # " " /\ \A j \in (i + 1)..Len(s) : s[j] = " "
         IN  SubSeq(s, a, b)

HasAuthorName(msg) ==
    msg.isdict /\ msg.author = "dict" /\ msg.name = "str" /\ NonBlank(msg.nameval)

Qualifies(msg) ==
    HasAuthorName(msg) /\ msg.content = "str" /\ NonBlank(msg.contentval)

WellFormed(file) == file.kind = "ok"

QualifyingIn(file) ==
    IF WellFormed(file)
    THEN Cardinality({i \in 1..Len(file.msgs) : Qualifies(file.msgs[i])})
    ELSE 0

RECURSIVE QualifyingCount(_)
QualifyingCount(files) ==
    IF files = <<>> THEN 0
    ELSE QualifyingIn(Head(files)) + QualifyingCount(Tail(files))

NoValidRecord(files) ==
    \A i \in 1..Len(files) : QualifyingIn(files[i]) = 0

Without(files, i) == SubSeq(files, 1, i - 1) \o SubSeq(files, i + 1, Len(files))

ExtractionDone ==
    existed = "no" /\ pc \notin {"start", "extract"}

CatalogDone == pc \in {"prompt", "exit_no_authors"}

Terminated ==
    pc \in {"exit_no_files", "exit_no_messages", "exit_no_authors", "complete"}

-----------------------------------------------------------------------------
(* C1, C2: the extraction pass *)

\* C1: once the extraction pass is over, the number of records equals the
\* number of messages, over all well-formed files, with a non-blank string
\* author.name and a non-blank string content; a message failing the test is
\* dropped on its own.
C1_RecordCountIsQualifyingCount ==
    ExtractionDone => Len(all_documents) = QualifyingCount(dir)

\* C2: a file that fails at any step (unreadable, unparseable, wrong shape,
\* or an exception while its messages are processed) contributes no record,
\* and the records are those of the directory without that file.
C2_FailedFileContributesNothing ==
    ExtractionDone =>
        \A i \in 1..Len(dir) :
            (dir[i].kind \in BadKinds \/ ExtractFileDocs(dir[i]).failed) =>
                /\ \A k \in 1..Len(all_documents) :
                       all_documents[k].source_file # dir[i].name
                /\ all_documents = ExtractAll(Without(dir, i))

-----------------------------------------------------------------------------
(* C3, C4: the selection *)

\* The maximal comma-free stretches of s, as <<first, last>> positions
TokenSpans(s) ==
    {sp \in (1..(Len(s) + 1)) \X (0..Len(s)) :
        /\ sp[1] <= sp[2] + 1
        /\ sp[1] = 1 \/ s[sp[1] - 1] = ","
        /\ sp[2] = Len(s) \/ s[sp[2] + 1] = ","
        /\ \A k \in sp[1]..sp[2] : s[k] # ","}

\* t is a run of digits, possibly with blanks around it
IsNumeral(t) ==
    \E a, b \in 1..Len(t) :
        /\ a <= b
        /\ \A k \in 1..Len(t) :
               IF k < a \/ k > b THEN t[k] = " " ELSE IsDigit(t[k])

RECURSIVE NumeralValue(_, _)
NumeralValue(t, acc) ==
    IF t = <<>> THEN acc
    ELSE IF IsDigit(Head(t)) THEN NumeralValue(Tail(t), 10 * acc + DigitVal(Head(t)))
    ELSE NumeralValue(Tail(t), acc)

\* The 0-based indices one token selects in a catalog of n names
TokenIndices(t, n) ==
    {i \in 0..(n - 1) :
        \/ /\ IsNumeral(t)
           /\ NumeralValue(t, 0) = i + 1
        \/ \E p \in 1..Len(t) :
               /\ t[p] = "-"
               /\ IsNumeral(SubSeq(t, 1, p - 1))
               /\ IsNumeral(SubSeq(t, p + 1, Len(t)))
               /\ LET a == NumeralValue(SubSeq(t, 1, p - 1), 0)
                      b == NumeralValue(SubSeq(t, p + 1, Len(t)), 0)
                  IN  1 <= a /\ a <= b /\ b <= n /\ a - 1 <= i /\ i <= b - 1}

ExpectedIndices(s, n) ==
    UNION {TokenIndices(SubSeq(s, sp[1], sp[2]), n) : sp \in TokenSpans(s)}

\* result is the names of catalog at the indices I, ascending, each once
IsAscendingSelection(result, catalog, I) ==
    /\ Len(result) = Cardinality(I)
    /\ \A i \in I : result[Cardinality({k \in I : k < i}) + 1] = catalog[i + 1]

\* C3: parse_selection returns without raising, and its result is the names
\* at the indices selected by the valid tokens (k for 1 <= k <= N, a-b for
\* 1 <= a <= b <= N), ascending and without duplicates; every other token
\* contributes nothing, and the order of the tokens does not matter.
C3_ParseSelectionResult ==
    pc = "parse_ret" =>
        /\ ~raised
        /\ IsAscendingSelection(authors_to_analyze, unique_authors,
                                ExpectedIndices(user_input, Len(unique_authors)))

\* parse_selection("3,1") on three names returned the first and the third
C3_Witness ==
    /\ pc = "parse_ret"
    /\ user_input = <<"3", ",", "1">>
    /\ Len(unique_authors) = 3
    /\ authors_to_analyze = <<unique_authors[1], unique_authors[3]>>

EqualsAllIgnoringCase(s) ==
    /\ Len(s) = 3
    /\ s[1] \in {"a", "A"}
    /\ s[2] \in {"l", "L"}
    /\ s[3] \in {"l", "L"}

\* C4: an input equal to 'all', whatever its case, resolves to the full
\* catalog in the catalog's order, and the selection loop is left.
C4_AllSelectsCatalog ==
    EqualsAllIgnoringCase(user_input) =>
        /\ authors_to_analyze = unique_authors
        /\ pc \in {"query", "complete"}

\* "ALL" was read against a catalog of two names or more, and all were queried
C4_Witness ==
    /\ user_input = <<"A", "L", "L">>
    /\ Len(unique_authors) >= 2
    /\ pc = "complete"
    /\ queries = unique_authors

-----------------------------------------------------------------------------
(* C5, C10: the author catalog *)

\* s comes before t in the dictionary order of code points
LexBefore(s, t) ==
    \E k \in 1..(Len(t)) :
        /\ \A j \in 1..(k - 1) : j <= Len(s) /\ s[j] = t[j]
        /\ \/ k = Len(s) + 1
           \/ k <= Len(s) /\ Ord(s[k]) < Ord(t[k])

ExpectedAuthors(files) ==
    UNION {{Trimmed(files[i].msgs[k].nameval) :
              k \in {m \in 1..Len(files[i].msgs) : HasAuthorName(files[i].msgs[m])}}
           : i \in {f \in 1..Len(files) : WellFormed(files[f])}}

EnumerationOrders(n) == {q \in [1..n -> 1..n] : \A a, b \in 1..n : q[a] = q[b] => a = b}

\* C5: get_unique_authors returns, sorted and without duplicates, exactly
\* the trimmed non-blank string names at messages[i].author.name of the
\* well-formed files, content or not; every enumeration order of the files
\* gives the same sequence; an unreadable or unparseable file is skipped.
C5_CatalogSortedExactAnyOrder ==
    CatalogDone =>
        /\ \A i \in 1..(Len(unique_authors) - 1) :
               LexBefore(unique_authors[i], unique_authors[i + 1])
        /\ Range(unique_authors) = ExpectedAuthors(dir)
        /\ \A q \in EnumerationOrders(Len(dir)) :
               get_unique_authors([i \in 1..Len(dir) |-> dir[q[i]]]) = unique_authors

\* An unparseable file came first; the second gave "a" (from " a") and "b"
\* (from a message without content)
C5_Witness ==
    /\ pc = "prompt"
    /\ Len(dir) = 2
    /\ dir[1].kind = "badjson"
    /\ unique_authors = <<<<"a">>, <<"b">>>>
    /\ \E k \in 1..Len(dir[2].msgs) :
           dir[2].msgs[k].nameval = <<" ", "a">>
    /\ \E k \in 1..Len(dir[2].msgs) :
           dir[2].msgs[k].nameval = <<"b">> /\ dir[2].msgs[k].content = "missing"

\* C10: in the build branch the author of every record is in the catalog,
\* and the exit for an empty catalog is not taken after a build.
C10_RecordAuthorsInCatalog ==
    (existed = "no" /\ CatalogDone) =>
        /\ \A k \in 1..Len(all_documents) :
               all_documents[k].author \in Range(unique_authors)
        /\ pc # "exit_no_authors"

\* A record whose name needed trimming, next to an author without content
C10_Witness ==
    /\ existed = "no"
    /\ pc = "prompt"
    /\ \E k \in 1..Len(all_documents) :
           /\ all_documents[k].author = <<"a">>
           /\ all_documents[k].text = <<" ", "a", " said: ", "x">>
    /\ Len(unique_authors) > Len(all_documents)

-----------------------------------------------------------------------------
(* C6, C7: build or load *)

Positions(e) == {i \in 1..Len(events) : events[i] = e}

\* C6: when PERSIST_DIR exists the index is loaded, nothing is extracted,
\* built or persisted, and the catalog is still scanned before the prompt;
\* when it does not, every extraction precedes the build and the build
\* precedes the persist.
C6_LoadSkipsExtraction ==
    /\ existed = "yes" =>
           /\ all_documents = <<>>
           /\ fileIdx = 0
           /\ Positions("extract") \cup Positions("build") \cup Positions("persist") = {}
           /\ pc # "load" => (index = "loaded" /\ Positions("load") = {1})
           /\ pc \in {"prompt", "query", "complete", "exit_no_authors"} =>
                  events = <<"load", "catalog">>
    /\ existed = "no" =>
           /\ Positions("load") = {}
           /\ \A b \in Positions("build") :
                  /\ b = Len(dir) + 1
                  /\ \A i \in 1..(b - 1) : events[i] = "extract"
           /\ \A q \in Positions("persist") : q > 1 /\ events[q - 1] = "build"
           /\ pc \in {"prompt", "query", "complete", "exit_no_authors"} =>
                  /\ Positions("persist") # {}
                  /\ events[Len(events)] = "catalog"

\* The index was loaded over files that hold a qualifying message
C6_Witness ==
    /\ existed = "yes"
    /\ pc = "prompt"
    /\ QualifyingCount(dir) > 0
    /\ all_documents = <<>>

\* C7: without a persisted index, an index is built and persisted only if
\* the extraction produced a record; with no file or no valid record the run
\* builds, persists, scans, prompts and queries nothing, and it ends.
C7_NoRecordNoIndex ==
    /\ [](/\ Positions("build") \cup Positions("persist") # {} => all_documents # <<>>
          /\ (existed = "no" /\ NoValidRecord(dir)) =>
                 /\ pc \in {"extract", "extracted", "exit_no_files", "exit_no_messages"}
                 /\ index = "none"
                 /\ ~storage
                 /\ \A i \in 1..Len(events) : events[i] = "extract"
                 /\ unique_authors = <<>>
                 /\ queries = <<>>
                 /\ ~raised)
    /\ (existed = "no" /\ NoValidRecord(dir))
           ~> (pc \in {"exit_no_files", "exit_no_messages"})

\* The run ended without an index although the files name an author
C7_Witness ==
    /\ pc = "exit_no_messages"
    /\ ExpectedAuthors(dir) # {}
    /\ index = "none"

-----------------------------------------------------------------------------
(* C8, C9: the selection loop and the queries *)

\* C8: once a selection is resolved there is one query per author, in the
\* selection's order, naming that author; whatever the response, the loop
\* goes on, and the run completes with as many queries as authors, none
\* queried twice.
C8_OneQueryPerAuthor ==
    /\ [](/\ pc \in {"query", "complete"} =>
                 /\ qi \in 1..(Len(authors_to_analyze) + 1)
                 /\ queries = SubSeq(authors_to_analyze, 1, qi - 1)
          /\ pc \notin {"query", "complete"} => queries = <<>>
          /\ pc = "complete" =>
                 /\ queries = authors_to_analyze
                 /\ \A i, j \in 1..Len(queries) : queries[i] = queries[j] => i = j)
    /\ [](pc = "query" => <>(pc = "complete" /\ queries = authors_to_analyze))

\* Two authors were queried, the last response was empty, the run completed
C8_Witness ==
    /\ pc = "complete"
    /\ Len(queries) = 2
    /\ streaming_response = "empty"

ExpectedSelection(s, catalog) ==
    IF EqualsAllIgnoringCase(s) THEN catalog
    ELSE LET I == ExpectedIndices(s, Len(catalog))
         IN  [j \in 1..Cardinality(I) |->
                 catalog[1 + CHOOSE i \in I : Cardinality({k \in I : k < i}) = j - 1]]

\* C9: an input resolving to an empty selection leads to another prompt and
\* to no query; the loop is left only by an input resolving to a non-empty
\* selection, which is the selection of that input alone; after such an
\* input the run completes.
C9_RepromptUntilNonEmpty ==
    /\ [][(pc = "prompt" /\ ExpectedSelection(user_input', unique_authors) = <<>>)
             => (pc' = "prompt" /\ queries' = <<>>)]_vars
    /\ [](/\ pc = "prompt" => (authors_to_analyze = <<>> /\ queries = <<>>)
          /\ pc \in {"query", "complete"} =>
                 /\ authors_to_analyze # <<>>
                 /\ authors_to_analyze = ExpectedSelection(user_input, unique_authors))
    /\ (pc = "query") ~> (pc = "complete")

\* An out-of-range input was read and the driver is prompting again
C9_Witness ==
    /\ pc = "prompt"
    /\ user_input = <<"9">>
    /\ authors_to_analyze = <<>>
    /\ queries = <<>>

====
